---- MODULE Spec2Model ----
(***************************************************************************)
(* The request pipelines of the Multimodel AI Bot backend:                 *)
(*   POST /api/chat/message    (chat.routes.ts, router.post('/message'))    *)
(*   POST /api/vision/analyze  (chat.routes.ts, router.post('/analyze'))    *)
(* with the two inference clients generateGroqResponse and analyzeImage,   *)
(* the media encoder encodeImageToBase64 and the temporary upload file.    *)
(*                                                                         *)
(* A handler runs synchronously up to its await of the inference call and  *)
(* again from the call's completion to its end, so each request takes two  *)
(* steps (Receive, Complete); fs.unlink completes on the thread pool, in a *)
(* step of its own (UnlinkDone).  Requests interleave freely.              *)
(*                                                                         *)
(* No handler reads the clock except to stamp its response, so the clock   *)
(* stands still in Spec; SpecClock runs the text pipeline under an         *)
(* advancing clock for what is said about timestamps.                      *)
(***************************************************************************)
EXTENDS Integers, Sequences, FiniteSets

\* ---------------------------------------------------------------- bounds
MaxReqs == 2
MaxClock == 2
MaxSends == 2

Reqs == 1..MaxReqs

\* ------------------------------------------------------------- JS values
Undefined == [t |-> "undefined"]
Null == [t |-> "null"]
Str(s) == [t |-> "string", v |-> s]

\* JavaScript truthiness of the values above: `!v` is ~Truthy(v).
Truthy(v) == v.t = "string" /\ v.v # ""

\* a || b
Or(a, b) == IF Truthy(a) THEN a ELSE b

\* new Date().toISOString() at clock reading t.
ToISOString(t) == <<"ISO8601", t>>

\* ------------------------------------------------------ inputs considered
Messages == {Undefined, Null, Str(""), Str(" "), Str("hello")}
Prompts == {Undefined, Str(""), Str(" "), Str("describe")}

\* Failures of groq.chat.completions.create (what the SDK throws).
ErrorKinds == {"ECONNRESET", "401 invalid_api_key"}

Choice(c) == [message |-> [t |-> "object", content |-> c]]
ChoiceLists ==
  { <<>>,
    <<[message |-> Undefined]>>,
    <<Choice(Null)>>,
    <<Choice(Str(""))>>,
    <<Choice(Str("A")), Choice(Str("B"))>> }

Failure(e) == [ok |-> FALSE, error |-> e]
Success(ch) == [ok |-> TRUE, choices |-> ch]
Outcomes == {Failure(e) : e \in ErrorKinds} \cup {Success(ch) : ch \in ChoiceLists}

NoOutcome == [ok |-> FALSE, error |-> "none yet"]
NoFile == [t |-> "undefined"]
NoImage == "null"

\* ------------------------------------------------------------------ state
VARIABLES
  pc,          \* per request: "idle", "awaiting" (the inference call), "done"
  endpoint,    \* per request: "none", "chat", "vision"
  body,        \* per request: req.body
  file,        \* per request: req.file
  receivedAt,  \* per request: the clock when the request was received
  calls,       \* per request: the outbound inference calls made, in order
  reads,       \* per request: readFileSync calls on its upload
  unlinks,     \* per request: fs.unlink calls on its upload
  outcome,     \* per request: how its inference call ended
  responses,   \* per request: the responses sent, in order
  unlink,      \* per request: "none", "pending", "deleted", "failed"
  uploads,     \* the files that exist under uploads/
  now,         \* the wall clock
  encoded,     \* per request: encodeImageToBase64 "none" (not called), "ok", "error"
  \* The client (App in index.ts):
  input,          \* the text box, a sequence of characters
  selectedImage,  \* the selected image's data URL, or NoImage
  imagePreview,   \* the preview's data URL, or NoImage
  loading,        \* the loading flag
  messages,       \* the chat shown
  sending,        \* the running sendMessage calls, with what each captured
  requests,       \* the requests the client has made to the API, in order
  appended        \* the senders of the messages appended so far, in order

clientVars == <<input, selectedImage, imagePreview, loading, messages, sending,
                requests, appended>>

vars == <<pc, endpoint, body, file, receivedAt, calls, reads, unlinks,
          outcome, responses, unlink, uploads, now, encoded, clientVars>>

\* --------------------------------------------------- the inference clients
\* completion.choices[0]?.message?.content
FirstContent(choices) ==
  IF Len(choices) = 0 THEN Undefined
  ELSE IF choices[1].message = Undefined THEN Undefined
  ELSE choices[1].message.content

Returned(text) == [ok |-> TRUE, value |-> text]
Thrown(msg) == [ok |-> FALSE, message |-> msg]

\* Mutant: ?? in place of ||, which lets an empty content through.
generateGroqResponse_NullishCoalescing(o) ==
  IF o.ok
  THEN Returned(IF FirstContent(o.choices) \in {Undefined, Null}
                THEN Str("No response generated.")
                ELSE FirstContent(o.choices))
  ELSE Thrown("Failed to generate AI response")

\* generateGroqResponse, from the completion of its create() call on.
generateGroqResponse(o) ==
  IF o.ok
  THEN Returned(Or(FirstContent(o.choices), Str("No response generated.")))
  ELSE Thrown("Failed to generate AI response")

\* analyzeImage, from the completion of its create() call on.
analyzeImage(o) ==
  IF o.ok
  THEN Returned(Or(FirstContent(o.choices), Str("No analysis generated.")))
  ELSE Thrown("Failed to analyze image")

\* analyzeImage's parameter default: prompt = "What's in this image?"
analyzeImagePrompt(p) == IF p = Undefined THEN Str("What's in this image?") ELSE p

\* encodeImageToBase64
encodeImageToBase64(path) == <<"base64", path>>

\* The image_url of the vision call.
DataUri(b64) == <<"data:image/jpeg;base64,", b64>>

\* ------------------------------------------------------------- the routes
Json(status, b) == [status |-> status, body |-> b]

\* Mutant: only an absent message is rejected (message === undefined).
MessageMissing_UndefinedOnly(message) == message = Undefined

\* !message
MessageMissing(message) == ~Truthy(message)

MessageRequired == Json(400, [error |-> "Message is required"])
ChatFailed == Json(500, [error |-> "Failed to process your message"])
VisionFailed == Json(500, [error |-> "Failed to analyze image"])

\* Mutant: no early return, so the missing file is answered by the catch.
NoImageUploaded_FromCatch == VisionFailed

NoImageUploaded == Json(400, [error |-> "No image uploaded"])

\* Mutant: the catch answers with the caught error's message.
ChatResponse_LeakMessage(result, t) ==
  IF result.ok
  THEN Json(200, [reply |-> result.value, timestamp |-> ToISOString(t)])
  ELSE Json(500, [error |-> result.message])

\* Mutant: the timestamp is a Date taken once, when the module loaded.
ChatResponse_StaleTimestamp(result, t) ==
  IF result.ok
  THEN Json(200, [reply |-> result.value, timestamp |-> ToISOString(0)])
  ELSE ChatFailed

\* POST /message after the await: res.json({reply, timestamp}) or the catch.
ChatResponse(result, t) ==
  IF result.ok
  THEN Json(200, [reply |-> result.value, timestamp |-> ToISOString(t)])
  ELSE ChatFailed

\* POST /analyze after the await: res.json({analysis, timestamp}) or the catch.
VisionResponse(result, t) ==
  IF result.ok
  THEN Json(200, [analysis |-> result.value, timestamp |-> ToISOString(t)])
  ELSE VisionFailed

\* Mutant: the route forwards req.body.prompt without defaulting it.
RoutePrompt_NoDefault(p) == p

\* req.body.prompt || 'What\'s in this image?'
RoutePrompt(p) == Or(p, Str("What's in this image?"))

\* The multer destination of request r's upload.
UploadPath(r) == <<"uploads/", r>>

Init ==
  /\ pc = [r \in Reqs |-> "idle"]
  /\ endpoint = [r \in Reqs |-> "none"]
  /\ body = [r \in Reqs |-> Undefined]
  /\ file = [r \in Reqs |-> NoFile]
  /\ receivedAt = [r \in Reqs |-> 0]
  /\ calls = [r \in Reqs |-> <<>>]
  /\ reads = [r \in Reqs |-> 0]
  /\ unlinks = [r \in Reqs |-> 0]
  /\ outcome = [r \in Reqs |-> NoOutcome]
  /\ responses = [r \in Reqs |-> <<>>]
  /\ unlink = [r \in Reqs |-> "none"]
  /\ uploads = {}
  /\ now = 0
  /\ encoded = [r \in Reqs |-> "none"]
  /\ input = <<>>
  /\ selectedImage = NoImage
  /\ imagePreview = NoImage
  /\ loading = FALSE
  /\ messages = <<>>
  /\ sending = <<>>
  /\ requests = <<>>
  /\ appended = <<>>

\* The wall clock advances.
Tick ==
  /\ now < MaxClock
  /\ now' = now + 1
  /\ UNCHANGED <<pc, endpoint, body, file, receivedAt, calls, reads, unlinks,
                 outcome, responses, unlink, uploads>>
  /\ UNCHANGED <<encoded, clientVars>>

\* Mutant: the 400 is sent without `return`, and the handler goes on to the
\* inference call.
ChatReceive_NoReturn(r, message) ==
  /\ pc[r] = "idle"
  /\ endpoint' = [endpoint EXCEPT ![r] = "chat"]
  /\ body' = [body EXCEPT ![r] = [message |-> message]]
  /\ receivedAt' = [receivedAt EXCEPT ![r] = now]
  /\ responses' = [responses EXCEPT ![r] =
                     IF MessageMissing(message) THEN Append(@, MessageRequired) ELSE @]
  /\ calls' = [calls EXCEPT ![r] = Append(@, [client |-> "text", prompt |-> message])]
  /\ pc' = [pc EXCEPT ![r] = "awaiting"]
  /\ UNCHANGED <<file, reads, unlinks, outcome, unlink, uploads, now>>
  /\ UNCHANGED <<encoded, clientVars>>

\* POST /message up to the await of generateGroqResponse(message).
ChatReceive(r, message) ==
  /\ pc[r] = "idle"
  /\ endpoint' = [endpoint EXCEPT ![r] = "chat"]
  /\ body' = [body EXCEPT ![r] = [message |-> message]]
  /\ receivedAt' = [receivedAt EXCEPT ![r] = now]
  /\ IF MessageMissing(message)
     THEN /\ responses' = [responses EXCEPT ![r] = Append(@, MessageRequired)]
          /\ pc' = [pc EXCEPT ![r] = "done"]
          /\ calls' = calls
     ELSE /\ calls' = [calls EXCEPT ![r] =
                         Append(@, [client |-> "text", prompt |-> message])]
          /\ pc' = [pc EXCEPT ![r] = "awaiting"]
          /\ responses' = responses
  /\ UNCHANGED <<file, reads, unlinks, outcome, unlink, uploads, now>>
  /\ UNCHANGED <<encoded, clientVars>>

\* Mutant: a failed inference call is retried once before the request fails.
ChatComplete_Retry(r, o) ==
  /\ pc[r] = "awaiting"
  /\ endpoint[r] = "chat"
  /\ outcome' = [outcome EXCEPT ![r] = o]
  /\ IF ~o.ok /\ Len(calls[r]) < 2
     THEN /\ calls' = [calls EXCEPT ![r] = Append(@, calls[r][1])]
          /\ UNCHANGED <<pc, responses>>
     ELSE /\ responses' = [responses EXCEPT ![r] =
                Append(@, ChatResponse(generateGroqResponse(o), now))]
          /\ pc' = [pc EXCEPT ![r] = "done"]
          /\ calls' = calls
  /\ UNCHANGED <<endpoint, body, file, receivedAt, reads, unlinks,
                 unlink, uploads, now>>
  /\ UNCHANGED <<encoded, clientVars>>

\* Mutant: a module-level cache of the last reply answers later requests.
ChatComplete_CachedReply(r, o) ==
  /\ pc[r] = "awaiting"
  /\ endpoint[r] = "chat"
  /\ outcome' = [outcome EXCEPT ![r] = o]
  /\ responses' = [responses EXCEPT ![r] =
       Append(@,
         IF \E q \in Reqs : endpoint[q] = "chat" /\ pc[q] = "done"
                             /\ responses[q][1].status = 200
         THEN responses[CHOOSE q \in Reqs : endpoint[q] = "chat" /\ pc[q] = "done"
                                            /\ responses[q][1].status = 200][1]
         ELSE ChatResponse(generateGroqResponse(o), now))]
  /\ pc' = [pc EXCEPT ![r] = "done"]
  /\ UNCHANGED <<endpoint, body, file, receivedAt, calls, reads, unlinks,
                 unlink, uploads, now>>
  /\ UNCHANGED <<encoded, clientVars>>

\* POST /message from the completion of the inference call to the response.
ChatComplete(r, o) ==
  /\ pc[r] = "awaiting"
  /\ endpoint[r] = "chat"
  /\ outcome' = [outcome EXCEPT ![r] = o]
  /\ responses' = [responses EXCEPT ![r] =
                     Append(@, ChatResponse(generateGroqResponse(o), now))]
  /\ pc' = [pc EXCEPT ![r] = "done"]
  /\ UNCHANGED <<endpoint, body, file, receivedAt, calls, reads, unlinks,
                 unlink, uploads, now>>
  /\ UNCHANGED <<encoded, clientVars>>

\* Mutant: the encoder catches its read error and returns '', and the request
\* goes on to the model.
VisionReceive_SwallowReadError(r, hasFile, prompt, readOk) ==
  /\ pc[r] = "idle"
  /\ endpoint' = [endpoint EXCEPT ![r] = "vision"]
  /\ body' = [body EXCEPT ![r] = [prompt |-> prompt]]
  /\ receivedAt' = [receivedAt EXCEPT ![r] = now]
  /\ file' = [file EXCEPT ![r] =
                IF hasFile THEN [t |-> "file", path |-> UploadPath(r)] ELSE NoFile]
  /\ uploads' = IF hasFile THEN uploads \cup {UploadPath(r)} ELSE uploads
  /\ IF ~hasFile
     THEN /\ responses' = [responses EXCEPT ![r] = Append(@, NoImageUploaded)]
          /\ pc' = [pc EXCEPT ![r] = "done"]
          /\ UNCHANGED <<calls, reads>>
     ELSE /\ reads' = [reads EXCEPT ![r] = @ + 1]
          /\ IF readOk
             THEN /\ calls' = [calls EXCEPT ![r] =
                      Append(@, [client |-> "vision",
                                 prompt |-> analyzeImagePrompt(RoutePrompt(prompt)),
                                 image |-> DataUri(encodeImageToBase64(UploadPath(r)))])]
                  /\ pc' = [pc EXCEPT ![r] = "awaiting"]
                  /\ responses' = responses
             ELSE /\ calls' = [calls EXCEPT ![r] =
                      Append(@, [client |-> "vision",
                                 prompt |-> analyzeImagePrompt(RoutePrompt(prompt)),
                                 image |-> DataUri(<<"base64", "">>)])]
                  /\ pc' = [pc EXCEPT ![r] = "awaiting"]
                  /\ responses' = responses
  /\ UNCHANGED <<unlinks, outcome, unlink, now>>
  /\ encoded' = [encoded EXCEPT ![r] =
                   IF ~hasFile THEN "none" ELSE IF readOk THEN "ok" ELSE "error"]
  /\ UNCHANGED clientVars

\* upload.single('image') and POST /analyze up to the await of analyzeImage.
\* readOk: whether fs.readFileSync of the upload succeeds.
VisionReceive(r, hasFile, prompt, readOk) ==
  /\ pc[r] = "idle"
  /\ endpoint' = [endpoint EXCEPT ![r] = "vision"]
  /\ body' = [body EXCEPT ![r] = [prompt |-> prompt]]
  /\ receivedAt' = [receivedAt EXCEPT ![r] = now]
  /\ file' = [file EXCEPT ![r] =
                IF hasFile THEN [t |-> "file", path |-> UploadPath(r)] ELSE NoFile]
  /\ uploads' = IF hasFile THEN uploads \cup {UploadPath(r)} ELSE uploads
  /\ IF ~hasFile
     THEN /\ responses' = [responses EXCEPT ![r] = Append(@, NoImageUploaded)]
          /\ pc' = [pc EXCEPT ![r] = "done"]
          /\ UNCHANGED <<calls, reads>>
     ELSE /\ reads' = [reads EXCEPT ![r] = @ + 1]
          /\ IF readOk
             THEN /\ calls' = [calls EXCEPT ![r] =
                      Append(@, [client |-> "vision",
                                 prompt |-> analyzeImagePrompt(RoutePrompt(prompt)),
                                 image |-> DataUri(encodeImageToBase64(UploadPath(r)))])]
                  /\ pc' = [pc EXCEPT ![r] = "awaiting"]
                  /\ responses' = responses
             ELSE /\ responses' = [responses EXCEPT ![r] = Append(@, VisionFailed)]
                  /\ pc' = [pc EXCEPT ![r] = "done"]
                  /\ calls' = calls
  /\ UNCHANGED <<unlinks, outcome, unlink, now>>
  /\ encoded' = [encoded EXCEPT ![r] =
                   IF ~hasFile THEN "none" ELSE IF readOk THEN "ok" ELSE "error"]
  /\ UNCHANGED clientVars

\* Mutant: fs.unlinkSync inside the try, so a failed deletion reaches the catch.
VisionComplete_UnlinkSync(r, o, u) ==
  /\ pc[r] = "awaiting"
  /\ endpoint[r] = "vision"
  /\ outcome' = [outcome EXCEPT ![r] = o]
  /\ IF analyzeImage(o).ok
     THEN /\ unlinks' = [unlinks EXCEPT ![r] = @ + 1]
          /\ unlink' = [unlink EXCEPT ![r] = IF u = "failed" THEN "failed" ELSE "deleted"]
          /\ uploads' = IF u = "failed" THEN uploads ELSE uploads \ {file[r].path}
          /\ responses' = [responses EXCEPT ![r] =
                Append(@, IF u = "failed" THEN VisionFailed
                          ELSE VisionResponse(analyzeImage(o), now))]
     ELSE /\ UNCHANGED <<unlinks, unlink, uploads>>
          /\ responses' = [responses EXCEPT ![r] = Append(@, VisionFailed)]
  /\ pc' = [pc EXCEPT ![r] = "done"]
  /\ UNCHANGED <<endpoint, body, file, receivedAt, calls, reads, now>>
  /\ UNCHANGED <<encoded, clientVars>>

\* POST /analyze from the completion of the inference call to the response.
\* u: how far the thread pool's unlink has got when the response is sent.
VisionComplete(r, o, u) ==
  /\ pc[r] = "awaiting"
  /\ endpoint[r] = "vision"
  /\ u \in {"pending", "deleted", "failed"}
  /\ outcome' = [outcome EXCEPT ![r] = o]
  /\ IF analyzeImage(o).ok
     THEN /\ unlinks' = [unlinks EXCEPT ![r] = @ + 1]
          /\ unlink' = [unlink EXCEPT ![r] = u]
          /\ uploads' = IF u = "deleted" THEN uploads \ {file[r].path} ELSE uploads
     ELSE UNCHANGED <<unlinks, unlink, uploads>>
  /\ responses' = [responses EXCEPT ![r] =
                     Append(@, VisionResponse(analyzeImage(o), now))]
  /\ pc' = [pc EXCEPT ![r] = "done"]
  /\ UNCHANGED <<endpoint, body, file, receivedAt, calls, reads, now>>
  /\ UNCHANGED <<encoded, clientVars>>

\* Mutant: the cleanup empties the uploads/ directory instead of unlinking
\* the request's own file.
UnlinkDone_EmptyDirectory(r, ok) ==
  /\ unlink[r] = "pending"
  /\ unlink' = [unlink EXCEPT ![r] = IF ok THEN "deleted" ELSE "failed"]
  /\ uploads' = IF ok THEN {} ELSE uploads
  /\ UNCHANGED <<pc, endpoint, body, file, receivedAt, calls, reads, unlinks,
                 outcome, responses, now>>
  /\ UNCHANGED <<encoded, clientVars>>

\* The thread pool finishes fs.unlink and its callback runs (an error is
\* only logged).
UnlinkDone(r, ok) ==
  /\ unlink[r] = "pending"
  /\ unlink' = [unlink EXCEPT ![r] = IF ok THEN "deleted" ELSE "failed"]
  /\ uploads' = IF ok THEN uploads \ {file[r].path} ELSE uploads
  /\ UNCHANGED <<pc, endpoint, body, file, receivedAt, calls, reads, unlinks,
                 outcome, responses, now>>
  /\ UNCHANGED <<encoded, clientVars>>

Next ==
  \/ \E r \in Reqs, m \in Messages : ChatReceive(r, m)
  \/ \E r \in Reqs, o \in Outcomes : ChatComplete(r, o)
  \/ \E r \in Reqs, h \in BOOLEAN, p \in Prompts, k \in BOOLEAN :
       VisionReceive(r, h, p, k)
  \/ \E r \in Reqs, o \in Outcomes, u \in {"pending", "deleted", "failed"} :
       VisionComplete(r, o, u)
  \/ \E r \in Reqs, ok \in BOOLEAN : UnlinkDone(r, ok)

Spec == Init /\ [][Next]_vars

\* Every inference call eventually returns or fails, and the handler then runs
\* on: an awaited promise that settles resumes its async function.
SpecLive ==
  /\ Spec
  /\ \A r \in Reqs :
       WF_vars(\/ \E o \in Outcomes : ChatComplete(r, o)
               \/ \E o \in Outcomes, u \in {"pending", "deleted", "failed"} :
                    VisionComplete(r, o, u))

\* The text pipeline under an advancing clock.
NextClock ==
  \/ Tick
  \/ \E r \in Reqs, m \in Messages : ChatReceive(r, m)
  \/ \E r \in Reqs, o \in Outcomes : ChatComplete(r, o)

SpecClock == Init /\ [][NextClock]_vars

\* ------------------------------------------------------------ the client
serverVars == <<pc, endpoint, body, file, receivedAt, calls, reads, unlinks,
                outcome, responses, unlink, uploads, now, encoded>>

\* Text is a sequence of characters; a fixed text of the program is one item.
Inputs == {<<>>, <<" ">>, <<"h", "i">>, <<" ", "h", "i", " ">>}
Images == {"data:image/png;base64,iVBOR"}

RECURSIVE TrimStart(_)
TrimStart(s) == IF s # <<>> /\ Head(s) = " " THEN TrimStart(Tail(s)) ELSE s

RECURSIVE TrimEnd(_)
TrimEnd(s) ==
  IF s # <<>> /\ s[Len(s)] = " " THEN TrimEnd(SubSeq(s, 1, Len(s) - 1)) ELSE s

\* String.prototype.trim
Trim(s) == TrimEnd(TrimStart(s))

\* What the fetch of the API and response.json() can give: a thrown error, or
\* the JSON of a 200, 400 or 500 response of either route.
FetchThrows == [ok |-> FALSE]
FetchResults ==
  { FetchThrows,
    [ok |-> TRUE, data |-> [reply |-> <<"Hello!">>]],
    [ok |-> TRUE, data |-> [analysis |-> <<"A cat.">>]],
    [ok |-> TRUE, data |-> [error |-> <<"Failed to analyze image">>]] }

\* data.analysis || data.reply || 'No response'
BotText(data) ==
  IF "analysis" \in DOMAIN data /\ data.analysis # <<>> THEN data.analysis
  ELSE IF "reply" \in DOMAIN data /\ data.reply # <<>> THEN data.reply
  ELSE <<"No response">>

\* Mutant: the guard forgets the loading flag.
SendGuard_IgnoresLoading(inp, sel, ld) == ~(Trim(inp) = <<>> /\ sel = NoImage)

\* sendMessage goes on past: if ((!input.trim() && !selectedImage) || loading) return;
SendGuard(inp, sel, ld) == ~((Trim(inp) = <<>> /\ sel = NoImage) \/ ld)

\* The request sendMessage makes, from what the call captured.
ApiRequest(text, sel) ==
  IF sel # NoImage
  THEN [url |-> "/api/vision/analyze", image |-> sel, selected |-> sel,
        prompt |-> IF text # <<>> THEN text ELSE <<"What's in this image?">>]
  ELSE [url |-> "/api/chat/message", message |-> text, selected |-> sel]

\* onChange of the text box, and the "Tell me a fun fact" button.
SetInput(s) ==
  /\ input' = s
  /\ UNCHANGED <<selectedImage, imagePreview, loading, messages, sending,
                 requests, appended, serverVars>>

\* handleImageSelect, when the FileReader has loaded the file.
HandleImageSelect(img) ==
  /\ imagePreview' = img
  /\ selectedImage' = img
  /\ UNCHANGED <<input, loading, messages, sending, requests, appended, serverVars>>

\* clearSelectedImage, from the preview's button.
ClearSelectedImage ==
  /\ imagePreview # NoImage
  /\ selectedImage' = NoImage
  /\ imagePreview' = NoImage
  /\ UNCHANGED <<input, loading, messages, sending, requests, appended, serverVars>>

\* clearChat and newChat.
ClearChat ==
  /\ messages # <<>>
  /\ messages' = <<>>
  /\ selectedImage' = NoImage
  /\ imagePreview' = NoImage
  /\ UNCHANGED <<input, loading, sending, requests, appended, serverVars>>

\* sendMessage up to its first await: of the image's blob when an image is
\* selected, of the API request otherwise.
SendMessage ==
  /\ SendGuard(input, selectedImage, loading)
  /\ Len(appended) < 2 * MaxSends
  /\ LET text == Trim(input)
     IN /\ messages' = Append(messages,
             [sender |-> "user",
              text |-> IF text # <<>> THEN text
                       ELSE IF selectedImage # NoImage THEN <<"[Image uploaded]">>
                       ELSE <<>>,
              image |-> imagePreview])
        /\ sending' = Append(sending,
             [text |-> text, image |-> selectedImage,
              step |-> IF selectedImage # NoImage THEN "blob" ELSE "api"])
        /\ requests' = IF selectedImage # NoImage THEN requests
                       ELSE Append(requests, ApiRequest(text, selectedImage))
  /\ appended' = Append(appended, "user")
  /\ input' = <<>>
  /\ loading' = TRUE
  /\ UNCHANGED <<selectedImage, imagePreview, serverVars>>

Without(seq, i) == SubSeq(seq, 1, i - 1) \o SubSeq(seq, i + 1, Len(seq))

\* The catch and the finally of sendMessage.
SendFailed(i) ==
  /\ messages' = Append(messages,
       [sender |-> "bot",
        text |-> <<"Sorry, I encountered an error. Please try again.">>])
  /\ appended' = Append(appended, "bot")
  /\ loading' = FALSE
  /\ sending' = Without(sending, i)
  /\ UNCHANGED <<input, selectedImage, imagePreview>>

\* sendMessage from the blob of the selected image to the API request.
BlobDone(i, ok) ==
  /\ i \in 1..Len(sending)
  /\ sending[i].step = "blob"
  /\ IF ok
     THEN /\ requests' = Append(requests, ApiRequest(sending[i].text, sending[i].image))
          /\ sending' = [sending EXCEPT ![i].step = "api"]
          /\ UNCHANGED <<input, selectedImage, imagePreview, loading, messages, appended>>
     ELSE /\ SendFailed(i)
          /\ requests' = requests
  /\ UNCHANGED serverVars

\* sendMessage from the API's response to its end.
FetchDone(i, res) ==
  /\ i \in 1..Len(sending)
  /\ sending[i].step = "api"
  /\ IF res.ok
     THEN /\ messages' = Append(messages,
               [sender |-> "bot", text |-> BotText(res.data),
                isImageAnalysis |-> sending[i].image # NoImage])
          /\ appended' = Append(appended, "bot")
          /\ selectedImage' = NoImage
          /\ imagePreview' = NoImage
          /\ loading' = FALSE
          /\ sending' = Without(sending, i)
          /\ input' = input
     ELSE SendFailed(i)
  /\ UNCHANGED <<requests, serverVars>>

NextClient ==
  \/ \E s \in Inputs : SetInput(s)
  \/ \E img \in Images : HandleImageSelect(img)
  \/ ClearSelectedImage
  \/ ClearChat
  \/ SendMessage
  \/ \E i \in 1..MaxSends, ok \in BOOLEAN : BlobDone(i, ok)
  \/ \E i \in 1..MaxSends, res \in FetchResults : FetchDone(i, res)

SpecClient == Init /\ [][NextClient]_vars

\* ================================================================ claims
Vision(r) == endpoint[r] = "vision"
Chat(r) == endpoint[r] = "chat"
Dispatched(r) == Len(calls[r]) > 0
Responded(r) == Len(responses[r]) > 0
InferenceFailed(r) == Dispatched(r) /\ pc[r] = "done" /\ ~outcome[r].ok
InferenceSucceeded(r) == Dispatched(r) /\ pc[r] = "done" /\ outcome[r].ok

\* C1 (as claimed): every vision request that reached dispatch and has
\* finished, with the inference call succeeded or failed, has had the
\* deletion of its upload initiated.
C1_CleanupInitiatedEitherWay ==
  \A r \in Reqs :
    (Vision(r) /\ Dispatched(r) /\ pc[r] = "done") => unlinks[r] >= 1

\* C2 (as claimed): when the inference call fails, the chat endpoint answers
\* exactly 500 "Failed to process your message", the vision endpoint exactly
\* 500 "Failed to analyze image", and the body is neither the underlying
\* error nor the service-level error message.
C2_GenericFailureHidesBothErrors ==
  \A r \in Reqs :
    InferenceFailed(r) =>
      /\ Chat(r) =>
           /\ responses[r] =
                <<[status |-> 500, body |-> [error |-> "Failed to process your message"]]>>
           /\ responses[r][1].body.error # generateGroqResponse(outcome[r]).message
      /\ Vision(r) =>
           /\ responses[r] =
                <<[status |-> 500, body |-> [error |-> "Failed to analyze image"]]>>
           /\ responses[r][1].body.error # analyzeImage(outcome[r]).message
      /\ responses[r][1].body.error # outcome[r].error

\* C2 (amended): when the inference call fails, the chat endpoint answers
\* exactly 500 "Failed to process your message" and the vision endpoint
\* exactly 500 "Failed to analyze image"; the body is never the underlying
\* error, and on the chat endpoint it is not the service-level message either
\* (on the vision endpoint the two texts are the same string).
C2_GenericFailureHidesUnderlyingError ==
  \A r \in Reqs :
    InferenceFailed(r) =>
      /\ Chat(r) =>
           /\ responses[r] =
                <<[status |-> 500, body |-> [error |-> "Failed to process your message"]]>>
           /\ responses[r][1].body.error # generateGroqResponse(outcome[r]).message
      /\ Vision(r) =>
           responses[r] =
             <<[status |-> 500, body |-> [error |-> "Failed to analyze image"]]>>
      /\ responses[r][1].body.error # outcome[r].error

\* C2 witness: a chat request and a vision request whose inference calls
\* failed, with different failure kinds, both answered.
C2_Witness ==
  \E r1, r2 \in Reqs :
    /\ Chat(r1) /\ InferenceFailed(r1) /\ Responded(r1)
    /\ Vision(r2) /\ InferenceFailed(r2) /\ Responded(r2)
    /\ outcome[r1].error # outcome[r2].error

\* C3: a chat request whose message is absent, null or the empty string is
\* answered exactly 400 "Message is required" and makes no inference call.
C3_MissingMessageRejected ==
  \A r \in Reqs :
    (Chat(r) /\ body[r].message \in {Undefined, Null, Str("")}) =>
      /\ responses[r] = <<[status |-> 400, body |-> [error |-> "Message is required"]]>>
      /\ calls[r] = <<>>
      /\ pc[r] = "done"

\* C3 witness: chat requests with a null and with an empty message were received.
C3_Witness ==
  \E r1, r2 \in Reqs :
    /\ Chat(r1) /\ body[r1].message = Null /\ Responded(r1)
    /\ Chat(r2) /\ body[r2].message = Str("") /\ Responded(r2)

\* C4: a vision request without an attached file is answered exactly 400
\* "No image uploaded"; the encoder, the vision client and fs.unlink are not
\* invoked for it.
C4_MissingImageRejected ==
  \A r \in Reqs :
    (Vision(r) /\ file[r] = NoFile) =>
      /\ responses[r] = <<[status |-> 400, body |-> [error |-> "No image uploaded"]]>>
      /\ reads[r] = 0
      /\ calls[r] = <<>>
      /\ unlinks[r] = 0
      /\ unlink[r] = "none"

\* C4 witness: a vision request without a file was received and answered.
C4_Witness ==
  \E r \in Reqs : Vision(r) /\ file[r] = NoFile /\ Responded(r) /\ pc[r] = "done"

\* The instant an ISO 8601 timestamp denotes.
DateParse(iso) == iso[2]

\* C5 (as claimed): every chat request with a non-empty message ends with a
\* 200 response carrying a non-null reply and a timestamp no earlier than
\* the request's receipt.
C5_ValidMessageAnswered200 ==
  \A r \in Reqs :
    (Chat(r) /\ Truthy(body[r].message) /\ pc[r] = "done") =>
      /\ Len(responses[r]) = 1
      /\ responses[r][1].status = 200
      /\ responses[r][1].body.reply \notin {Null, Undefined}
      /\ DateParse(responses[r][1].body.timestamp) >= receivedAt[r]

\* C5 (amended): every chat request with a non-empty message whose inference
\* call succeeds ends with a 200 response carrying a non-null reply and a
\* timestamp no earlier than the request's receipt.
C5_ValidMessageAnswered200OnSuccess ==
  \A r \in Reqs :
    (Chat(r) /\ Truthy(body[r].message) /\ pc[r] = "done" /\ outcome[r].ok) =>
      /\ Len(responses[r]) = 1
      /\ responses[r][1].status = 200
      /\ responses[r][1].body.reply \notin {Null, Undefined}
      /\ DateParse(responses[r][1].body.timestamp) >= receivedAt[r]

\* C5 witness: a chat request received after the clock had advanced and
\* answered 200 later still.
C5_Witness ==
  \E r \in Reqs :
    /\ Chat(r) /\ Truthy(body[r].message) /\ pc[r] = "done" /\ outcome[r].ok
    /\ receivedAt[r] > 0
    /\ DateParse(responses[r][1].body.timestamp) > receivedAt[r]

\* The text a 200 response carries.
ResultText(r) ==
  IF Chat(r) THEN responses[r][1].body.reply ELSE responses[r][1].body.analysis

Placeholder(r) ==
  IF Chat(r) THEN Str("No response generated.") ELSE Str("No analysis generated.")

\* C6: when the inference call succeeds, the result is the first candidate's
\* content if that is present and non-empty, and the client's placeholder
\* otherwise; it is never empty or null, also for an empty candidate list.
C6_FirstCandidateOrPlaceholder ==
  \A r \in Reqs :
    InferenceSucceeded(r) =>
      LET ch == outcome[r].choices
          present == /\ Len(ch) > 0
                     /\ ch[1].message # Undefined
                     /\ ch[1].message.content.t = "string"
                     /\ ch[1].message.content.v # ""
      IN /\ responses[r][1].status = 200
         /\ ResultText(r) = IF present THEN ch[1].message.content ELSE Placeholder(r)
         /\ ResultText(r) \notin {Str(""), Null, Undefined}

\* C6 witness: one request answered from an empty candidate list and one
\* from a list of two candidates, on different endpoints.
C6_Witness ==
  \E r1, r2 \in Reqs :
    /\ InferenceSucceeded(r1) /\ outcome[r1].choices = <<>>
    /\ ResultText(r1) = Placeholder(r1)
    /\ InferenceSucceeded(r2) /\ Len(outcome[r2].choices) = 2
    /\ endpoint[r1] # endpoint[r2]

\* A prompt field that is absent or holds nothing but whitespace.
Blank(p) == p = Undefined \/ (p.t = "string" /\ p.v \in {"", " "})

\* C7 (as claimed): the prompt passed to the vision client is "What's in
\* this image?" when the request's prompt is absent or blank, and the
\* request's prompt otherwise.
C7_BlankPromptDefaulted ==
  \A r \in Reqs :
    (Vision(r) /\ Dispatched(r)) =>
      calls[r][1].prompt =
        IF Blank(body[r].prompt) THEN Str("What's in this image?") ELSE body[r].prompt

\* C7 (amended): the prompt passed to the vision client is "What's in this
\* image?" when the request's prompt is absent or the empty string, and the
\* request's prompt unchanged otherwise (a whitespace-only prompt included).
C7_EmptyPromptDefaulted ==
  \A r \in Reqs :
    (Vision(r) /\ Dispatched(r)) =>
      calls[r][1].prompt =
        IF body[r].prompt \in {Undefined, Str("")}
        THEN Str("What's in this image?")
        ELSE body[r].prompt

\* C7 witness: one vision request dispatched with an empty prompt and one
\* with a prompt of its own.
C7_Witness ==
  \E r1, r2 \in Reqs :
    /\ Vision(r1) /\ Dispatched(r1) /\ body[r1].prompt = Str("")
    /\ Vision(r2) /\ Dispatched(r2) /\ body[r2].prompt = Str("describe")

\* C8 (as claimed): a vision request that passed validation is encoded before
\* it is dispatched, and once it is dispatched and answered its upload has
\* been cleaned up: deletion was initiated and the file no longer exists.
C8_CleanedUpBeforeResponded ==
  \A r \in Reqs :
    (Vision(r) /\ file[r] # NoFile) =>
      /\ Dispatched(r) => reads[r] >= 1
      /\ (Dispatched(r) /\ Responded(r)) =>
           /\ unlinks[r] >= 1
           /\ file[r].path \notin uploads

\* What a vision response says apart from its timestamp.
Visible(resp) ==
  [status |-> resp.status,
   body |-> [f \in DOMAIN resp.body \ {"timestamp"} |-> resp.body[f]]]

\* C9: for the same inference result two vision requests get the same status
\* and body whether their deletions succeed or fail, and a request whose
\* deletion was initiated has its response, exactly one, whatever became of
\* the deletion.
C9_UnlinkFailureInvisible ==
  /\ \A r1, r2 \in Reqs :
       ( /\ Vision(r1) /\ Dispatched(r1) /\ pc[r1] = "done"
         /\ Vision(r2) /\ Dispatched(r2) /\ pc[r2] = "done"
         /\ outcome[r1] = outcome[r2] ) =>
       Visible(responses[r1][1]) = Visible(responses[r2][1])
  /\ \A r \in Reqs : unlink[r] # "none" => Len(responses[r]) = 1

\* C9 witness: two answered vision requests with the same successful
\* inference result, one whose deletion failed and one whose deletion succeeded.
C9_Witness ==
  \E r1, r2 \in Reqs :
    /\ Vision(r1) /\ Vision(r2) /\ pc[r1] = "done" /\ pc[r2] = "done"
    /\ outcome[r1].ok /\ outcome[r1] = outcome[r2]
    /\ unlink[r1] = "failed" /\ unlink[r2] = "deleted"

\* C10: a request makes at most one inference call and a failed call ends the
\* request with no further call; a vision request reads its upload at most
\* once and deletes it at most once, a chat request never.
C10_AtMostOneCallReadDelete ==
  \A r \in Reqs :
    /\ Len(calls[r]) <= 1
    /\ reads[r] <= 1
    /\ unlinks[r] <= 1
    /\ Chat(r) => (reads[r] = 0 /\ unlinks[r] = 0)
    /\ (Dispatched(r) /\ outcome[r] \in {Failure(e) : e \in ErrorKinds}) =>
         (pc[r] = "done" /\ responses[r][1].status = 500)

\* C10 witness: a chat request whose one call failed, and a vision request
\* that read and deleted its upload once.
C10_Witness ==
  \E r1, r2 \in Reqs :
    /\ Chat(r1) /\ InferenceFailed(r1) /\ Len(calls[r1]) = 1
    /\ Vision(r2) /\ reads[r2] = 1 /\ unlinks[r2] = 1 /\ Len(calls[r2]) = 1

\* C11: a response, apart from its timestamp, is what the request's own input
\* and the outcome of its own inference call give: two requests with the same
\* input and the same outcome are answered alike whatever else was or is
\* being served, and each is answered as it would be if it were alone.
C11_NoStateCarriesOver ==
  /\ \A r1, r2 \in Reqs :
       ( /\ pc[r1] = "done" /\ pc[r2] = "done"
         /\ endpoint[r1] = endpoint[r2]
         /\ body[r1] = body[r2]
         /\ (file[r1] = NoFile) = (file[r2] = NoFile)
         /\ Dispatched(r1) = Dispatched(r2)
         /\ outcome[r1] = outcome[r2] ) =>
       /\ Len(responses[r1]) = 1 /\ Len(responses[r2]) = 1
       /\ Visible(responses[r1][1]) = Visible(responses[r2][1])
  /\ \A r \in Reqs :
       (pc[r] = "done" /\ Dispatched(r)) =>
         Visible(responses[r][1]) =
           IF Chat(r)
           THEN Visible(ChatResponse(generateGroqResponse(outcome[r]), 0))
           ELSE Visible(VisionResponse(analyzeImage(outcome[r]), 0))

\* C11 witness: the same text message issued twice, the two inference calls
\* ending differently, answered with two different responses.
C11_Witness ==
  \E r1, r2 \in Reqs :
    /\ r1 # r2 /\ Chat(r1) /\ Chat(r2)
    /\ body[r1] = body[r2] /\ Truthy(body[r1].message)
    /\ pc[r1] = "done" /\ pc[r2] = "done"
    /\ outcome[r1] # outcome[r2]
    /\ Visible(responses[r1][1]) # Visible(responses[r2][1])

\* C12: under any interleaving of vision requests each upload belongs to the
\* one request that created it: no two requests share a path, a request's
\* encoder reads its own file, and a file disappears only in a step that
\* completes the unlink of its own request, after that request has read it,
\* with no other request's deletion touched by the step.
C12_ExclusiveOwnership ==
  /\ [](\A r \in Reqs :
          (Vision(r) /\ file[r] # NoFile) =>
            /\ \A q \in Reqs \ {r} :
                 (Vision(q) /\ file[q] # NoFile) => file[q].path # file[r].path
            /\ Dispatched(r) =>
                 calls[r][1].image = <<"data:image/jpeg;base64,", <<"base64", file[r].path>>>>
            /\ unlink[r] = "deleted" => file[r].path \notin uploads)
  /\ [][\A r \in Reqs :
          (file[r] # NoFile /\ file[r].path \in uploads /\ file[r].path \notin uploads') =>
            /\ unlink[r] # "deleted" /\ unlink'[r] = "deleted"
            /\ reads[r] >= 1
            /\ \A q \in Reqs \ {r} : unlink'[q] = unlink[q] /\ unlinks'[q] = unlinks[q]]_vars

\* C12 witness: two vision requests in flight together, one whose upload has
\* been deleted while the other still awaits its inference call with its
\* upload in place.
C12_Witness ==
  \E r1, r2 \in Reqs :
    /\ r1 # r2 /\ Vision(r1) /\ Vision(r2)
    /\ unlink[r1] = "deleted" /\ file[r1].path \notin uploads
    /\ pc[r2] = "awaiting" /\ file[r2].path \in uploads

\* C13: when the encoder fails to read the upload, the request is answered
\* exactly 500 "Failed to analyze image" and the vision client is not invoked.
C13_ReadFailureAnswered500 ==
  \A r \in Reqs :
    encoded[r] = "error" =>
      /\ responses[r] = <<[status |-> 500, body |-> [error |-> "Failed to analyze image"]]>>
      /\ calls[r] = <<>>
      /\ outcome[r] = NoOutcome
      /\ pc[r] = "done"

\* C13 witness: a vision request with an attached file whose read failed.
C13_Witness ==
  \E r \in Reqs :
    Vision(r) /\ file[r] # NoFile /\ reads[r] = 1 /\ encoded[r] = "error" /\ Responded(r)

\* C14: every request is answered exactly once: it never has more than one
\* response, a finished request has exactly one, with status 200, 400 or 500,
\* a response once sent is never followed by another, and (the inference
\* call eventually returning or failing) every request received is
\* eventually answered.
C14_AnsweredExactlyOnce ==
  /\ [](\A r \in Reqs :
          /\ Len(responses[r]) <= 1
          /\ pc[r] = "awaiting" => Len(responses[r]) = 0
          /\ pc[r] = "done" =>
               (Len(responses[r]) = 1 /\ responses[r][1].status \in {200, 400, 500}))
  /\ [][\A r \in Reqs : Len(responses[r]) = 1 => responses'[r] = responses[r]]_vars
  /\ \A r \in Reqs : []<>(pc[r] = "idle" \/ Len(responses[r]) = 1)

\* C14 witness: requests answered on the three paths: a validation reject, a
\* success and a caught failure.
C14_Witness ==
  \E r1, r2 \in Reqs :
    /\ pc[r1] = "done" /\ pc[r2] = "done"
    /\ responses[r1][1].status = 400
    /\ responses[r2][1].status \in {200, 500} /\ Dispatched(r2)

\* C15: sendMessage never runs while another send is in flight, and never
\* with neither non-blank input nor a selected image; every send appends one
\* user message and then one bot message; a request goes to the vision
\* endpoint exactly when an image was selected; and loading is true exactly
\* while a send is running, so that every send ends with loading false.
C15_SendMessageDiscipline ==
  /\ Len(sending) <= 1
  /\ loading = (sending # <<>>)
  /\ \A i \in 1..Len(sending) :
       sending[i].text # <<>> \/ sending[i].image # NoImage
  /\ \A i \in 1..Len(appended) :
       appended[i] = IF i % 2 = 1 THEN "user" ELSE "bot"
  /\ Len(appended) % 2 = Len(sending)
  /\ Len(requests) <= (Len(appended) + 1) \div 2
  /\ \A i \in 1..Len(requests) :
       /\ (requests[i].url = "/api/vision/analyze") = (requests[i].selected # NoImage)
       /\ requests[i].url \in {"/api/vision/analyze", "/api/chat/message"}
       /\ requests[i].url = "/api/chat/message" =>
            (requests[i].message # <<>> /\ requests[i].message = Trim(requests[i].message))

\* C15 witness: two sends have run to their end, one to each endpoint, one of
\* them ending in the error notice, and loading is false again.
C15_Witness ==
  /\ Len(appended) = 4 /\ sending = <<>> /\ ~loading
  /\ Len(requests) = 2 /\ requests[1].url # requests[2].url
  /\ \E i \in 1..Len(messages) :
       messages[i].text = <<"Sorry, I encountered an error. Please try again.">>

====
